---- MODULE Spec2Model ----
(***************************************************************************)
(* Model of streamlit_ui.py: the WebSocketClient class (connect, the four  *)
(* transport callbacks, send_message, get_response, close), the session    *)
(* state kept by the UI, connect_websocket and the chat turn of main().    *)
(*                                                                         *)
(* Two execution contexts are modelled: the caller's thread (the UI        *)
(* script, one statement group per pc value) and, per client instance, the *)
(* background thread that runs WebSocketApp.run_forever and calls the      *)
(* callbacks.  The remote peer is the environment; its behaviour is fixed  *)
(* per run by `policy`.                                                    *)
(***************************************************************************)
EXTENDS Integers, Sequences, FiniteSets, TLC

\* ---------------------------------------------------------------- bounds
MaxInst  == 2      \* client instances constructed in one session
MaxTurns == 2      \* chat turns that pass the "connected" gate

\* ------------------------------------------------------ program constants
ConnectTimeout  == 5     \* connect(): timeout = 5
ResponseTimeout == 30    \* get_response(self, timeout=30)
Fallback == <<"No response received", 0>>

Inst == 1..MaxInst
NoClient == 0

\* Behaviours of the remote peer, fixed for a run:
\*   echo_now  replies {"response": X} once per request, in order, at once
\*   echo      replies {"response": X} once per request, in order, any time
\*   silent    never sends a frame
\*   any       answers a request at most once, in order, at any time, with
\*             any frame, and may refuse a write
Policies == {"echo_now", "echo", "silent", "any"}

Prompts == {<<"hello", 0>>}

\* The reply text the peer produces for the request of the n-th chat turn.
ReplyTo(n) == <<"reply", n>>

\* ------------------------------------------------------------ wire frames
\* Text frames the peer can send, by what they hold.
RespFrame(n) == [t |-> "resp", v |-> n]      \* {"response": <ReplyTo(n)>}
OtherFrame   == [t |-> "other", v |-> 0]     \* {"status": "ok"}
EmptyFrame   == [t |-> "empty", v |-> 0]     \* {}
NullFrame    == [t |-> "null", v |-> 0]      \* null
ListFrame    == [t |-> "list", v |-> 0]      \* [1]
BadFrame     == [t |-> "bad", v |-> 0]       \* {"response":   (truncated)

AnyFrames(n) == {RespFrame(n), OtherFrame, EmptyFrame, NullFrame, ListFrame, BadFrame}

\* json.loads: the decoded value, or a raised exception.
ParseError == [kind |-> "error", keys |-> {}, response |-> <<"", 0>>]

json_loads(f) ==
    CASE f.t = "resp"  -> [kind |-> "dict", keys |-> {"response"}, response |-> ReplyTo(f.v)]
      [] f.t = "other" -> [kind |-> "dict", keys |-> {"status"}, response |-> <<"", 0>>]
      [] f.t = "empty" -> [kind |-> "dict", keys |-> {}, response |-> <<"", 0>>]
      [] f.t = "null"  -> [kind |-> "none", keys |-> {}, response |-> <<"", 0>>]
      [] f.t = "list"  -> [kind |-> "list", keys |-> {"0"}, response |-> <<"", 0>>]
      [] OTHER         -> ParseError

\* Python truth value of a decoded payload (None and empty containers are false).
Truthy(p) == p.kind # "none" /\ p.keys # {}

\* dict.get('response', 'No response received')
GetResponseField(p) == IF "response" \in p.keys THEN p.response ELSE Fallback

\* ------------------------------------------------------------------ state
VARIABLES
    policy,          \* behaviour of the remote peer
    nInst,           \* WebSocketClient objects constructed so far
    ws,              \* self.ws per instance: the WebSocketApp, or None
    connected,       \* self.connected per instance
    message_queue,   \* self.message_queue per instance
    thread,          \* self.ws_thread per instance: none / running / done
    owed,            \* per instance: requests the peer received and has not answered
    ss_client,       \* st.session_state.ws_client (NoClient is None)
    ss_connected,    \* st.session_state.connected
    messages,        \* st.session_state.messages
    pc,              \* position of the caller's thread
    cur,             \* the instance whose connect() the caller is inside (NoClient outside)
    elapsed,         \* time.time() - start_time in connect() (0 outside it)
    waited,          \* time spent blocked in message_queue.get (0 outside it)
    fault,           \* an exception crossed the caller boundary
    ackInTime,       \* on_open ran inside the ceiling of the latest connect()
    lastInst,        \* the instance of the latest connect() (NoClient before any)
    ret,             \* per instance: what connect() returned
    closeCalls,      \* per instance: calls of close()
    wasClosed,       \* per instance: on_close ran, or close() was called, after Connected
    lastTurn,        \* the chat turn that finished last
    timedOut,        \* per instance: a wait on it ended by timeout
    delivered,       \* per instance: payloads on_message has enqueued, in arrival order
    returned,        \* per instance: items get_response has returned, in call order
    reqs,            \* per instance: the turns whose request was written to it
    answer           \* what has reached the wait in progress: none / bad / good

vars == <<policy, nInst, ws, connected, message_queue, thread, owed,
          ss_client, ss_connected, messages, pc, cur, elapsed, waited,
          fault, ackInTime, lastInst, ret, closeCalls, wasClosed, lastTurn, timedOut,
          delivered, returned, reqs, answer>>

clientVars  == <<ws, connected, message_queue, thread>>
sessionVars == <<ss_client, ss_connected, messages>>
histVars    == <<ackInTime, lastInst, ret, closeCalls, wasClosed, lastTurn, timedOut>>
turnHist    == <<delivered, returned, reqs, answer>>

\* self.ws = None, and the WebSocketApp once connect() has built it.
NoneWs == [app |-> FALSE, keep_running |-> FALSE, sock |-> "none"]
NewWs  == [app |-> TRUE, keep_running |-> TRUE, sock |-> "connecting"]

\* WebSocketClient.__init__
NewClient == [ws |-> NoneWs, connected |-> FALSE, message_queue |-> <<>>, fault |-> FALSE]

\* The fields of instance i that close() can see.
Client(i) == [ws |-> ws[i], connected |-> connected[i],
              message_queue |-> message_queue[i], fault |-> FALSE]

NoText == <<"", 0>>

\* The record of a finished turn: the client it ran on, the number of the
\* turn whose request it wrote (0 if none), how it ended, the text displayed.
Finished(i, req, out, val) == [inst |-> i, req |-> req, out |-> out, val |-> val]

NoTurn == Finished(NoClient, 0, "none", NoText)

Init ==
    /\ policy \in Policies
    /\ nInst = 0
    /\ ws = [i \in Inst |-> NoneWs]
    /\ connected = [i \in Inst |-> FALSE]
    /\ message_queue = [i \in Inst |-> <<>>]
    /\ thread = [i \in Inst |-> "none"]
    /\ owed = [i \in Inst |-> <<>>]
    /\ ss_client = NoClient
    /\ ss_connected = FALSE
    /\ messages = <<>>
    /\ pc = "idle"
    /\ cur = NoClient
    /\ elapsed = 0
    /\ waited = 0
    /\ fault = FALSE
    /\ ackInTime = FALSE
    /\ lastInst = NoClient
    /\ ret = [i \in Inst |-> "none"]
    /\ closeCalls = [i \in Inst |-> 0]
    /\ wasClosed = [i \in Inst |-> FALSE]
    /\ lastTurn = NoTurn
    /\ timedOut = [i \in Inst |-> FALSE]
    /\ delivered = [i \in Inst |-> <<>>]
    /\ returned = [i \in Inst |-> <<>>]
    /\ reqs = [i \in Inst |-> <<>>]
    /\ answer = "none"

\* ------------------------------------------------------- WebSocketClient
\* WebSocketApp.close() that stops the loop but leaves the socket usable.
AppCloseKeepsSocket(w) == [w EXCEPT !.keep_running = FALSE]

\* WebSocketApp.close(): stop the loop and drop the socket.
AppClose(w) == [w EXCEPT !.keep_running = FALSE, !.sock = "closed"]

\* close() without its `if self.ws` test: a call on None raises.
closeUnguarded(c) ==
    IF c.ws.app THEN [c EXCEPT !.ws = AppClose(c.ws)] ELSE [c EXCEPT !.fault = TRUE]

\* WebSocketClient.close
close(c) == IF c.ws.app THEN [c EXCEPT !.ws = AppClose(c.ws)] ELSE c

\* connect_websocket builds a client of its own on every call.
SameInstance == IF ss_client # NoClient THEN ss_client ELSE nInst + 1

\* ws_client = WebSocketClient(websocket_url, api_key)
FreshInstance == nInst + 1

\* connect_websocket up to the start of the polling loop of connect():
\* close the session's client, build a new one, start its thread.
ConnectStart ==
    /\ pc = "idle"
    /\ nInst < MaxInst
    /\ LET old == ss_client
           n   == FreshInstance
           c   == close(Client(old))
           ws1 == IF old # NoClient THEN [ws EXCEPT ![old] = c.ws] ELSE ws
       IN /\ ws' = [ws1 EXCEPT ![n] = NewWs]
          /\ fault' = (fault \/ (old # NoClient /\ c.fault))
          /\ closeCalls' = IF old # NoClient
                           THEN [closeCalls EXCEPT ![old] = @ + 1] ELSE closeCalls
          /\ wasClosed' = IF old # NoClient
                          THEN [wasClosed EXCEPT ![old] = TRUE] ELSE wasClosed
          /\ thread' = [thread EXCEPT ![n] = "running"]
          /\ cur' = n
          /\ lastInst' = n
    /\ ackInTime' = FALSE
    /\ nInst' = nInst + 1
    /\ elapsed' = 0
    /\ pc' = "poll_check"
    /\ UNCHANGED <<policy, connected, message_queue, owed, sessionVars,
                   waited, ret, lastTurn, timedOut,
                   turnHist>>

\* while not self.connected and time.time() - start_time < timeout
PollCheck ==
    /\ pc = "poll_check"
    /\ pc' = IF ~connected[cur] /\ elapsed < ConnectTimeout
             THEN "poll_sleep" ELSE "connect_ret"
    /\ UNCHANGED <<policy, nInst, clientVars, owed, sessionVars, cur, elapsed,
                   waited, fault, histVars,
                   turnHist>>

\* A loop that reads start_time anew after every sleep: no time has passed.
SleptRestarted(e) == 0

\* time.time() - start_time after one more time.sleep(0.1)
Slept(e) == e + 1

\* time.sleep(0.1), counted in units of the ceiling
PollSleep ==
    /\ pc = "poll_sleep"
    /\ elapsed' = Slept(elapsed)
    /\ pc' = "poll_check"
    /\ UNCHANGED <<policy, nInst, clientVars, owed, sessionVars, cur,
                   waited, fault, histVars,
                   turnHist>>

\* return self.connected, and what connect_websocket and main do with it
ConnectReturn ==
    /\ pc = "connect_ret"
    /\ LET r == connected[cur]
       IN /\ ret' = [ret EXCEPT ![cur] = IF r THEN "true" ELSE "false"]
          /\ ss_client' = IF r THEN cur ELSE ss_client
          /\ ss_connected' = IF r THEN TRUE ELSE ss_connected
    /\ pc' = "idle"
    /\ cur' = NoClient
    /\ elapsed' = 0
    /\ UNCHANGED <<policy, nInst, clientVars, owed, messages,
                   waited, fault, ackInTime, lastInst, closeCalls, wasClosed, lastTurn, timedOut,
                   turnHist>>

\* ------------------------------------------------- background thread
\* connect() of instance i is still inside its ceiling.
InsideCeiling(i) ==
    /\ cur = i
    /\ pc \in {"poll_check", "poll_sleep"}
    /\ elapsed < ConnectTimeout

\* on_open, called once by run_forever when the handshake completes
OnOpen(i) ==
    /\ thread[i] = "running"
    /\ ws[i].keep_running
    /\ ws[i].sock = "connecting"
    /\ ws' = [ws EXCEPT ![i].sock = "open"]
    /\ connected' = [connected EXCEPT ![i] = TRUE]
    /\ ackInTime' = (ackInTime \/ InsideCeiling(i))
    /\ UNCHANGED <<policy, nInst, message_queue, thread, owed, sessionVars,
                   pc, cur, elapsed, waited, fault, lastInst, ret,
                   closeCalls, wasClosed, lastTurn, timedOut,
                   turnHist>>

\* on_message that puts the newest payload in front of the older ones.
on_message_front(q, f) ==
    IF json_loads(f) = ParseError THEN q ELSE <<json_loads(f)>> \o q

\* on_message that enqueues the exception of a frame that does not parse.
on_message_enqueue_error(q, f) == Append(q, json_loads(f))

\* on_message that loses every frame.
on_message_drop(q, f) == q

\* The queue after on_message(f): a frame that does not parse is dropped.
on_message(q, f) ==
    IF json_loads(f) = ParseError THEN q ELSE Append(q, json_loads(f))

\* The payloads enqueued so far, after frame f has arrived.
Arrived(d, f) == IF json_loads(f) = ParseError THEN d ELSE Append(d, json_loads(f))

\* What has reached the wait in progress, after frame f has arrived: "bad"
\* as long as nothing but frames that do not parse has.
Reached(a, f) ==
    IF json_loads(f) # ParseError THEN "good" ELSE IF a = "none" THEN "bad" ELSE a

\* The frames the peer may send to instance i now.
PeerFrames(i) ==
    IF owed[i] = <<>> THEN {}
    ELSE IF policy = "any" THEN AnyFrames(Head(owed[i])) ELSE {RespFrame(Head(owed[i]))}

OnMessage(i) ==
    /\ thread[i] = "running"
    /\ ws[i].keep_running
    /\ ws[i].sock = "open"
    /\ \E f \in PeerFrames(i) :
          /\ message_queue' = [message_queue EXCEPT ![i] = on_message(@, f)]
          /\ delivered' = [delivered EXCEPT ![i] = Arrived(@, f)]
          /\ answer' = IF pc = "waiting" /\ i = ss_client THEN Reached(answer, f) ELSE answer
    /\ owed' = [owed EXCEPT ![i] = Tail(@)]
    /\ UNCHANGED <<policy, nInst, ws, connected, thread, sessionVars, pc, cur,
                   elapsed, waited, fault, histVars,
                   returned, reqs>>

\* on_error that treats the error as the end of the connection.
OnErrorStops(i) ==
    /\ thread[i] = "running"
    /\ connected' = [connected EXCEPT ![i] = FALSE]
    /\ UNCHANGED <<policy, nInst, ws, message_queue, thread, owed, sessionVars,
                   pc, cur, elapsed, waited, fault, histVars, turnHist>>

\* on_error: print only
OnError(i) ==
    /\ thread[i] = "running"
    /\ UNCHANGED vars

\* The peer closes the connection, or the handshake fails.  A peer that
\* answers every request does not close while it owes an answer.
PeerMayClose(i) ==
    /\ ws[i].sock \in {"connecting", "open"}
    /\ policy \in {"echo", "echo_now"} => owed[i] = <<>>

\* on_close, called by run_forever when it tears the connection down
\* (peer close, failed handshake, or after close()); the thread then ends.
OnClose(i) ==
    /\ thread[i] = "running"
    /\ ~ws[i].keep_running \/ PeerMayClose(i)
    /\ connected' = [connected EXCEPT ![i] = FALSE]
    /\ thread' = [thread EXCEPT ![i] = "done"]
    /\ wasClosed' = [wasClosed EXCEPT ![i] = @ \/ ws[i].sock = "open"]
    /\ ws' = [ws EXCEPT ![i].sock = "closed"]
    /\ owed' = [owed EXCEPT ![i] = <<>>]
    /\ UNCHANGED <<policy, nInst, message_queue, sessionVars, pc, cur,
                   elapsed, waited, fault, ackInTime, lastInst, ret,
                   closeCalls, lastTurn, timedOut,
                   turnHist>>

\* ----------------------------------------------------------- chat turn
UserTurns == Cardinality({k \in DOMAIN messages : messages[k].role = "user"})

\* main(): a prompt was typed.  The gate on st.session_state.connected,
\* then the user entry is appended.
ChatGate ==
    /\ pc = "idle"
    /\ UserTurns < MaxTurns
    /\ \E prompt \in Prompts :
          IF ~ss_connected
          THEN /\ lastTurn' = Finished(ss_client, 0, "please_connect", NoText)
               /\ UNCHANGED <<messages, pc>>
          ELSE /\ messages' = Append(messages, [role |-> "user", content |-> prompt])
               /\ pc' = "send_check"
               /\ UNCHANGED lastTurn
    /\ UNCHANGED <<policy, nInst, clientVars, owed, ss_client, ss_connected,
                   cur, elapsed, waited, fault, ackInTime, lastInst, ret, closeCalls,
                   wasClosed, timedOut,
                   turnHist>>

\* send_message that writes whatever the connection state is.
SendGuardAlways(i) == TRUE

\* send_message: if self.connected
SendGuard(i) == connected[i]

\* send_message up to its test, and its `return False` when not connected;
\* main() then shows "Failed to send message".
SendCheck ==
    /\ pc = "send_check"
    /\ IF SendGuard(ss_client)
       THEN /\ pc' = "send_write"
            /\ UNCHANGED lastTurn
       ELSE /\ pc' = "idle"
            /\ lastTurn' = Finished(ss_client, 0, "not_connected", NoText)
    /\ UNCHANGED <<policy, nInst, clientVars, owed, sessionVars, cur, elapsed,
                   waited, fault, ackInTime, lastInst, ret, closeCalls, wasClosed,
                   timedOut,
                   turnHist>>

\* WebSocketApp.send raises when the socket is gone; an unconstrained
\* transport may also refuse a write on an open socket.
WriteMayFail(i) == ws[i].sock # "open" \/ policy = "any"
WriteMaySucceed(i) == ws[i].sock = "open"

\* send_message without its try/except: the exception reaches main().
UncaughtSendError(flt) == TRUE

\* send_message: except Exception, print, return False
CaughtSendError(flt) == flt

\* send_message: self.ws.send(json.dumps(payload)) inside try/except
SendWrite ==
    /\ pc = "send_write"
    /\ \/ /\ WriteMaySucceed(ss_client)
          /\ owed' = [owed EXCEPT ![ss_client] =
                         IF policy = "silent" THEN @ ELSE Append(@, UserTurns)]
          /\ waited' = 0
          /\ pc' = "waiting"
          /\ reqs' = [reqs EXCEPT ![ss_client] = Append(@, UserTurns)]
          /\ answer' = IF message_queue[ss_client] = <<>> THEN "none" ELSE "good"
          /\ UNCHANGED <<lastTurn, fault>>
       \/ /\ WriteMayFail(ss_client)
          /\ pc' = "idle"
          /\ lastTurn' = Finished(ss_client, 0, "send_error", NoText)
          /\ fault' = CaughtSendError(fault)
          /\ UNCHANGED <<owed, waited, reqs, answer>>
    /\ UNCHANGED <<policy, nInst, clientVars, sessionVars, cur, elapsed,
                   ackInTime, lastInst, ret, closeCalls, wasClosed, timedOut,
                   delivered, returned>>

\* queue.Queue.get leaves the item in the queue.
Peeked(q) == q

\* queue.Queue.get removes the head of the queue.
Dequeued(q) == Tail(q)

\* get_response returns an item, and main() renders it:
\* `if response:` then response.get('response', 'No response received').
GetResponseItem ==
    /\ pc = "waiting"
    /\ message_queue[ss_client] # <<>>
    /\ LET response == Head(message_queue[ss_client])
       IN /\ message_queue' = [message_queue EXCEPT ![ss_client] = Dequeued(@)]
          /\ returned' = [returned EXCEPT ![ss_client] = Append(@, response)]
          /\ IF Truthy(response)
             THEN IF response.kind = "dict"
                  THEN /\ messages' = Append(messages,
                              [role |-> "assistant", content |-> GetResponseField(response)])
                       /\ lastTurn' = Finished(ss_client, UserTurns, "reply",
                                                          GetResponseField(response))
                       /\ UNCHANGED fault
                  ELSE /\ fault' = TRUE
                       /\ lastTurn' = Finished(ss_client, UserTurns, "fault", NoText)
                       /\ UNCHANGED messages
             ELSE
                  /\ lastTurn' = Finished(ss_client, UserTurns, "falsy", NoText)
                  /\ UNCHANGED <<messages, fault>>
    /\ pc' = "idle"
    /\ waited' = 0
    /\ answer' = "none"
    /\ UNCHANGED <<policy, nInst, ws, connected, thread, owed, ss_client,
                   ss_connected, cur, elapsed, ackInTime, lastInst, ret,
                   closeCalls, wasClosed, timedOut,
                   delivered, reqs>>

\* The timeout passes while the caller is blocked in message_queue.get
\* (the wait is observed at its start and at its deadline).  A peer that
\* answers at once has answered before any time has passed.
WaitElapse ==
    /\ pc = "waiting"
    /\ message_queue[ss_client] = <<>>
    /\ waited < ResponseTimeout
    /\ policy = "echo_now" => owed[ss_client] = <<>>
    /\ waited' = ResponseTimeout
    /\ UNCHANGED <<policy, nInst, clientVars, owed, sessionVars, pc, cur,
                   elapsed, fault, histVars,
                   turnHist>>

\* message_queue.get() without a timeout never gives up.
QueueGetBlocks(w) == FALSE

\* message_queue.get(timeout=timeout) gives up once the timeout has passed.
QueueGetExpired(w) == w >= ResponseTimeout

\* queue.Empty after the timeout: get_response returns None, main() shows
\* st.error("No response received").
GetResponseTimeout ==
    /\ pc = "waiting"
    /\ message_queue[ss_client] = <<>>
    /\ QueueGetExpired(waited)
    /\ pc' = "idle"
    /\ lastTurn' = Finished(ss_client, UserTurns, "timeout", NoText)
    /\ timedOut' = [timedOut EXCEPT ![ss_client] = TRUE]
    /\ waited' = 0
    /\ answer' = "none"
    /\ UNCHANGED <<policy, nInst, clientVars, owed, sessionVars, cur, elapsed,
                   fault, ackInTime, lastInst, ret, closeCalls, wasClosed,
                   delivered, returned, reqs>>

\* ------------------------------------------------------- specification
Caller ==
    \/ ConnectStart
    \/ PollCheck
    \/ PollSleep
    \/ ConnectReturn
    \/ ChatGate
    \/ SendCheck
    \/ SendWrite
    \/ GetResponseItem
    \/ WaitElapse
    \/ GetResponseTimeout

Background == \E i \in Inst : OnOpen(i) \/ OnMessage(i) \/ OnError(i) \/ OnClose(i)

Next == Caller \/ Background

Spec == Init /\ [][Next]_vars

\* run_forever of instance i ends once close() has stopped its loop, and
\* calls on_close on the way out.
Teardown(i) == ~ws[i].keep_running /\ OnClose(i)

\* Time passes, a blocked message_queue.get returns when it can, the polling
\* loop of connect() keeps running, and a stopped run_forever tears down.
LiveSpec ==
    /\ Spec
    /\ WF_vars(WaitElapse)
    /\ WF_vars(GetResponseTimeout)
    /\ WF_vars(GetResponseItem)
    /\ WF_vars(PollCheck)
    /\ WF_vars(PollSleep)
    /\ WF_vars(ConnectReturn)
    /\ \A i \in Inst : WF_vars(Teardown(i))

\* ------------------------------------------------------------- claims
\* The step in which connect() returns.
ConnectReturns == pc = "connect_ret" /\ pc' = "idle"

\* C1: connect() returns true exactly when on_open ran inside the ceiling,
\* and when it returns false the instance is not connected.
C1_ReturnsTrueIffAcknowledged ==
    [][ConnectReturns =>
          /\ (ret'[cur] = "true") <=> ackInTime
          /\ (ret'[cur] = "false") => ~connected'[cur]]_vars

\* The step in which send_message finds the instance not connected.
SendOnDisconnected == pc = "send_check" /\ pc' # "send_check" /\ ~connected[ss_client]

\* The step in which main() finds the session not connected.
GateOnDisconnected == pc = "idle" /\ ~ss_connected /\ lastTurn' # lastTurn

\* C2: a chat turn on a client that is not connected fails at once: nothing
\* is written, the caller does not wait, no queue loses an item and no
\* assistant entry is appended.
C2_NotConnectedFailsAtOnce ==
    [][/\ SendOnDisconnected =>
             /\ pc' = "idle"
             /\ lastTurn'.out = "not_connected"
             /\ owed' = owed
             /\ message_queue' = message_queue
             /\ messages' = messages
       /\ GateOnDisconnected =>
             /\ pc' = "idle"
             /\ lastTurn'.out = "please_connect"
             /\ owed' = owed
             /\ message_queue' = message_queue
             /\ messages' = messages]_vars

\* A turn has failed on a client the session holds and that is not connected.
C2_Witness ==
    /\ pc = "idle"
    /\ lastTurn.out = "not_connected"
    /\ ss_connected
    /\ ~connected[ss_client]

\* The peer answers every request once, in order, with {"response": X}.
Echoes == policy \in {"echo", "echo_now"}

\* The turn that finished last showed the reply to its own request.
OwnReply == lastTurn.out = "reply" /\ lastTurn.val = ReplyTo(lastTurn.req)

\* C3 as stated: against a peer that answers every request once, in order,
\* every turn whose request was written receives the reply to that request.
C3_EveryTurnOwnReply == (Echoes /\ lastTurn.req # 0) => OwnReply

\* C3 amended: the same, provided no wait on that client has ended by
\* timeout (each reply arrived before the wait for it gave up).
C3_OwnReplyWithoutTimeout ==
    (Echoes /\ lastTurn.req # 0 /\ ~timedOut[lastTurn.inst]) => OwnReply

\* The second of two turns on one client has received its own reply.
C3_Witness ==
    /\ Echoes
    /\ lastTurn.req = 2
    /\ OwnReply
    /\ Len(messages) = 4
    /\ messages[2].content = ReplyTo(1)

\* The step in which get_response returns a mapping without a "response" key.
ReturnsKeyless ==
    /\ pc = "waiting"
    /\ pc' = "idle"
    /\ message_queue[ss_client] # <<>>
    /\ Head(message_queue[ss_client]).kind = "dict"
    /\ "response" \notin Head(message_queue[ss_client]).keys

\* C4: a payload without a "response" key makes the waiting turn append
\* the fallback string as the assistant reply, never an error.
C4_KeylessYieldsFallback ==
    [][ReturnsKeyless =>
          /\ messages' = Append(messages, [role |-> "assistant", content |-> Fallback])
          /\ lastTurn'.out = "reply"
          /\ lastTurn'.val = Fallback]_vars

\* The background receive loop of instance i runs and its transport has
\* not been asked to close.
Live(i) == thread[i] = "running" /\ ws[i].keep_running

\* C5: at most one client instance of the session is live.
C5_AtMostOneLive == Cardinality({i \in Inst : Live(i)}) <= 1

\* C6: against a peer that echoes at once, a turn whose request was written
\* shows the reply to that request; its wait never reaches the timeout.
C6_EchoReturnsReply ==
    policy = "echo_now" =>
        /\ lastTurn.req # 0 => OwnReply
        /\ pc = "waiting" => waited = 0

\* The reply has been enqueued by the background thread while the caller
\* is blocked in get_response, on a queue that was empty.
C6_Witness ==
    /\ policy = "echo_now"
    /\ pc = "waiting"
    /\ message_queue[ss_client] = <<json_loads(RespFrame(UserTurns))>>

\* C7: against a peer that never replies, a turn whose request was written
\* never shows a reply and always ends, with the timeout outcome.
C7_SilentPeerTimesOut ==
    /\ [](policy = "silent" => lastTurn.out \notin {"reply", "falsy", "fault"})
    /\ (policy = "silent" /\ pc = "waiting") ~> (pc = "idle" /\ lastTurn.out = "timeout")

\* A turn against a silent peer has ended by timeout.
C7_Witness ==
    /\ policy = "silent"
    /\ pc = "idle"
    /\ lastTurn.out = "timeout"
    /\ lastTurn.req # 0

\* C8: once an instance that was connected is closed, no step sets its
\* connected flag again.
C8_ClosedIsTerminal ==
    [][\A i \in Inst : (wasClosed[i] /\ ~connected[i]) => ~connected'[i]]_vars

\* A closed instance stays disconnected while a newer instance is connected.
C8_Witness ==
    \E i, j \in Inst :
        /\ i # j
        /\ wasClosed[i]
        /\ ~connected[i]
        /\ thread[i] = "done"
        /\ connected[j]

\* C9: close() raises nothing in any state of a client, constructed or
\* connected or closed, and a second close() changes nothing.
C9_CloseIdempotent ==
    \A c \in {NewClient} \cup {Client(i) : i \in Inst} :
        /\ ~close(c).fault
        /\ ~close(close(c)).fault
        /\ close(close(c)) = close(c)

\* close() has been called on a client, and the client is as it left it.
C9_Witness ==
    \E i \in Inst :
        /\ closeCalls[i] >= 1
        /\ ~ws[i].keep_running
        /\ Client(i) = close(Client(i))

\* C10: an instance whose connect() returned false is never connected.
C10_FailedStaysDisconnected == \A i \in Inst : ret[i] = "false" => ~connected[i]

\* C11: on every instance the items successive get_response calls have
\* returned are a prefix of the payloads on_message enqueued, in arrival
\* order, and what is still queued is exactly the rest: nothing is reordered,
\* duplicated, skipped or returned twice.
C11_ReturnedIsPrefixOfDelivered ==
    \A i \in Inst :
        /\ Len(returned[i]) <= Len(delivered[i])
        /\ returned[i] = SubSeq(delivered[i], 1, Len(returned[i]))
        /\ returned[i] \o message_queue[i] = delivered[i]

C11_Witness ==
    \E i \in Inst : /\ Len(delivered[i]) = 2
                    /\ Len(returned[i]) = 1
                    /\ message_queue[i] = <<delivered[i][2]>>
                    /\ delivered[i][1] # delivered[i][2]

\* The turn that finished last showed a reply, on instance i, and no later
\* request has been written yet.
ShowedReply(i) == pc # "waiting" /\ lastTurn.out = "reply" /\ lastTurn.inst = i

EndsAfterMalformedOnly == pc = "waiting" /\ pc' = "idle" /\ answer = "bad"

\* C13: a frame that does not parse is dropped: on_message leaves the queue
\* as it is (and touches neither the connection state nor the caller, who
\* sees no exception), and a wait whose only answer was such a frame ends
\* with the timeout outcome, never with an error or a reply.
C13_MalformedFrameDropped ==
    /\ [](\A i \in Inst : on_message(message_queue[i], BadFrame) = message_queue[i])
    /\ [][(answer' = "bad" /\ answer # "bad") =>
              /\ message_queue' = message_queue /\ connected' = connected
              /\ thread' = thread /\ fault' = fault /\ pc' = pc]_vars
    /\ [][EndsAfterMalformedOnly =>
              /\ lastTurn'.out = "timeout"
              /\ messages' = messages /\ fault' = fault]_vars

C13_Witness ==
    /\ pc = "waiting" /\ answer = "bad" /\ waited = ResponseTimeout
    /\ owed[ss_client] = <<>> /\ message_queue[ss_client] = <<>>
    /\ connected[ss_client] /\ thread[ss_client] = "running" /\ ~fault

\* close() has been called on instance i and has returned.
Closed(i) == i # NoClient /\ closeCalls[i] > 0

\* send_message on a closed instance gets past `if self.connected` and
\* leaves its write.
WritesAfterClose == pc = "send_write" /\ pc' # "send_write" /\ Closed(ss_client)

\* C14: close() takes the instance to Closed: after it, the connected flag
\* eventually becomes false, and no send_message issued after close() has
\* returned transmits or returns true (no wait is ever started on a closed
\* instance; the write fails and the turn ends with the send error).
C14_CloseLeadsToClosed ==
    /\ \A i \in Inst : (closeCalls[i] > 0) ~> ~connected[i]
    /\ [](pc = "waiting" => ~Closed(ss_client))
    /\ [][WritesAfterClose =>
              /\ pc' = "idle" /\ lastTurn'.out = "send_error"
              /\ owed' = owed /\ reqs' = reqs]_vars

C14_Witness ==
    /\ pc = "idle" /\ lastTurn.out = "send_error"
    /\ Closed(lastTurn.inst) /\ wasClosed[lastTurn.inst] /\ ~connected[lastTurn.inst]
    /\ ret[lastTurn.inst] = "true"

\* The write of send_message fails on an instance whose flag is set.
WriteFails == pc = "send_write" /\ pc' = "idle" /\ connected[ss_client]

\* C15: when the instance is connected but the transport write fails,
\* send_message returns false instead of raising, leaves the connection state
\* and the queue as they are, and the wait is skipped: the turn ends at once
\* with the send error and nothing is appended to the history.
C15_WriteFailureReturnsFalse ==
    [][WriteFails =>
          /\ lastTurn'.out = "send_error" /\ lastTurn'.inst = ss_client
          /\ fault' = fault
          /\ connected' = connected /\ message_queue' = message_queue
          /\ ws' = ws /\ thread' = thread /\ owed' = owed
          /\ messages' = messages /\ ss_connected' = ss_connected
          /\ waited' = waited /\ returned' = returned]_vars

C15_Witness ==
    /\ pc = "idle" /\ lastTurn.out = "send_error" /\ ~fault
    /\ connected[lastTurn.inst] /\ ws[lastTurn.inst].sock = "open"
    /\ Len(messages) = 1 /\ messages[1].role = "user"

\* C16: a transport error reported to on_error changes nothing: not the
\* connected flag, not the queue, not the socket, and not whether the
\* instance's background loop is running.
C16_OnErrorChangesNothing ==
    [][\A i \in Inst : OnError(i) =>
          /\ connected' = connected /\ message_queue' = message_queue
          /\ ws' = ws /\ thread' = thread
          /\ owed' = owed /\ fault' = fault /\ pc' = pc]_vars

\* An error can be reported on a connected instance that holds an item.
C16_Witness ==
    \E i \in Inst : /\ ENABLED OnError(i)
                    /\ connected[i] /\ ws[i].sock = "open"
                    /\ message_queue[i] # <<>> /\ pc = "waiting"

\* connect() is inside its polling loop or about to return.
InConnect == pc \in {"poll_check", "poll_sleep", "connect_ret"}

\* C17: connect() always terminates: the polling loop never runs past the
\* 5-unit ceiling, every call returns, whether or not the acknowledgment ever
\* arrives, and what it returns is a boolean.
C17_ConnectTerminates ==
    /\ [](InConnect => elapsed <= ConnectTimeout)
    /\ InConnect ~> (pc = "idle")
    /\ [][ConnectReturns => ret'[cur] \in {"true", "false"}]_vars

C17_Witness ==
    \E i \in Inst : /\ pc = "idle" /\ ret[i] = "false"
                    /\ thread[i] = "running" /\ ws[i].sock = "connecting"

\* C18: the session's connected flag is true only if the session holds a
\* client whose own connected flag is true.
C18_SessionFlagFollowsClient ==
    ss_connected => (ss_client # NoClient /\ connected[ss_client])

\* C19: between actions the session's client is either absent or an instance
\* on which close() has not been called.
C19_SessionClientNeverClosed ==
    (pc = "idle" /\ ss_client # NoClient) => closeCalls[ss_client] = 0

\* C20: every item in an inbound queue is a mapping.
C20_QueueHoldsOnlyMappings ==
    \A i \in Inst : \A k \in DOMAIN message_queue[i] : message_queue[i][k].kind = "dict"

====
